---- MODULE Spec2Model ----
(***************************************************************************)
(* Model of the Perplexica query pipeline:                                 *)
(*   SearchAgent.search  (perplexica/search_agent.py)                      *)
(*   Classifier.classify (perplexica/classifier.py)                        *)
(*   Researcher.research / _iterative_research (perplexica/researcher.py)  *)
(*   SearxngSearch.search (perplexica/search.py)                           *)
(*   ModelRegistry.get_llm (perplexica/models/registry.py)                 *)
(*   Config.get_mode_config / get_model_config (perplexica/config.py)      *)
(*                                                                         *)
(* One request runs at a time.  Every await on a collaborator (model call, *)
(* Evidence Source call) is a suspension point and separates two actions.  *)
(* Python dicts are functions whose DOMAIN is the set of keys; strings     *)
(* produced by a model are sequences of tokens.                            *)
(***************************************************************************)
EXTENDS Integers, Sequences, FiniteSets, TLC

(***************************************************************************)
(* Bounds of the model                                                     *)
(***************************************************************************)
\* longest raw result list the search backend returns for one call
MaxBatch == 2
\* longest evidence list handed to the synthesis stage on its own
MaxEvidence == 6
\* longest chat history a caller passes
MaxHistory == 6
\* largest max_iterations of the hand-written (non default) quality mode
MaxCfgIterations == 1
\* longest raw result list of the backend when research runs on its own
MaxWideBatch == 6

(***************************************************************************)
(* Program constants                                                       *)
(***************************************************************************)
SpeedMaxIterations == 2
SpeedMaxResults == 5
BalancedMaxIterations == 6
BalancedMaxResults == 10
QualityMaxIterations == 25
QualityMaxResults == 15
DefaultMaxIterations == 6
DefaultMaxResults == 10
FollowUpMaxResults == 5
DigestItems == 5
SnippetLen == 200

(***************************************************************************)
(* Generic helpers                                                         *)
(***************************************************************************)
Range(s) == {s[i] : i \in 1..Len(s)}

Min(a, b) == IF a < b THEN a ELSE b

\* Python's s[:n] on a list
Take(s, n) == SubSeq(s, 1, Min(Len(s), IF n < 0 THEN 0 ELSE n))

\* Python's dict.get(key, default)
DictGet(d, k, default) == IF k \in DOMAIN d THEN d[k] ELSE default

\* the empty dict {}
EmptyDict == [k \in {} |-> 0]

RECURSIVE Flatten(_)
Flatten(ss) == IF ss = <<>> THEN <<>> ELSE Head(ss) \o Flatten(Tail(ss))

\* all sequences over S of length at most n
SeqsUpTo(S, n) == UNION {[1..k -> S] : k \in 0..n}

(***************************************************************************)
(* Exceptions: the classes the pipeline raises and catches                 *)
(***************************************************************************)
SearxngConnectionError == "SearxngConnectionError"
SearchError == "SearchError"
ValueError == "ValueError"
AttributeError == "AttributeError"
JSONDecodeError == "JSONDecodeError"
ModelCallError == "ModelCallError"
Exception == "Exception"
NoException == "none"

\* the classes an exception is an instance of
Ancestors(exc) ==
    CASE exc = SearxngConnectionError -> {SearxngConnectionError, SearchError, Exception}
      [] exc = SearchError -> {SearchError, Exception}
      [] exc = NoException -> {}
      [] OTHER -> {exc, Exception}

\* "except cls" matches exc
Catches(cls, exc) == cls \in Ancestors(exc)

(***************************************************************************)
(* Search results and the Evidence Source                                  *)
(***************************************************************************)
Missing == "<missing>"

\* raw result records of the backend's JSON; a record may lack its url
\* (content is the length of the snippet text)
RawResults ==
    { [title |-> "a", url |-> "u1", content |-> 250],
      [title |-> "b", url |-> "u1", content |-> 10],
      [title |-> "a", url |-> "u2", content |-> 0],
      [title |-> "a", url |-> Missing, content |-> 10] }

\* what the backend does for one call: answers 200 with a JSON result list
\* (a record occurs once in a list; two records may share their url),
\* is unreachable / answers non-200 / non-JSON / times out, or fails otherwise
BackendOutcomes ==
    { [kind |-> "ok", results |-> rs] :
          rs \in { l \in SeqsUpTo(RawResults, MaxBatch) :
                      \A i, j \in 1..Len(l) : i # j => l[i] # l[j] } }
    \cup { [kind |-> "unreachable", results |-> <<>>],
           [kind |-> "failure", results |-> <<>>] }

Standardize(raw) ==
    [title |-> raw.title,
     url |-> IF raw.url = Missing THEN "" ELSE raw.url,
     content |-> raw.content]

\* SearxngSearch_search without the limit of line 110
SearxngSearch_searchUnlimited(backend, maxResults) ==
    CASE backend.kind = "ok" ->
            [exc |-> NoException,
             results |-> [i \in 1..Len(backend.results) |-> Standardize(backend.results[i])]]
      [] backend.kind = "unreachable" ->
            [exc |-> SearxngConnectionError, results |-> <<>>]
      [] OTHER ->
            [exc |-> SearchError, results |-> <<>>]

\* SearxngSearch.search: the value returned or the exception raised
SearxngSearch_search(backend, maxResults) ==
    CASE backend.kind = "ok" ->
            LET limited == Take(backend.results, maxResults)
            IN [exc |-> NoException,
                results |-> [i \in 1..Len(limited) |-> Standardize(limited[i])]]
      [] backend.kind = "unreachable" ->
            [exc |-> SearxngConnectionError, results |-> <<>>]
      [] OTHER ->
            [exc |-> SearchError, results |-> <<>>]

\* how an Evidence Source call ended
SearchEvents(r) ==
    CASE r.exc = NoException -> {"search_ok"}
      [] r.exc = SearxngConnectionError -> {"connectivity_error"}
      [] OTHER -> {"generic_error"}

\* the marker of a gather slot whose call has not completed yet
Pending == [exc |-> "pending", results |-> <<>>]

(***************************************************************************)
(* Configuration                                                           *)
(***************************************************************************)
DefaultOptimization ==
    [speed |-> [max_iterations |-> SpeedMaxIterations, max_results |-> SpeedMaxResults],
     balanced |-> [max_iterations |-> BalancedMaxIterations, max_results |-> BalancedMaxResults],
     quality |-> [max_iterations |-> QualityMaxIterations, max_results |-> QualityMaxResults]]

\* a hand-written section: quality refines k times on one result per call
SmallOptimization(k) ==
    [DefaultOptimization EXCEPT !.quality = [max_iterations |-> k, max_results |-> 1]]

\* optimization sections a config file may carry
Optimizations ==
    {DefaultOptimization}
    \cup { SmallOptimization(k) : k \in 0..MaxCfgIterations }
    \cup { [DefaultOptimization EXCEPT !.quality = [max_results |-> QualityMaxResults]],
           [speed |-> DefaultOptimization.speed, balanced |-> DefaultOptimization.balanced] }

OllamaModel == "ollama:llama3.2"
OpenAIModel == "openai:gpt-4"
ModelNames == {OllamaModel, OpenAIModel}
NoModel == "None"

Configs ==
    { [optimization |-> o, default_chat_model |-> OllamaModel, openai_api_key |-> FALSE] :
          o \in Optimizations }
    \cup { [optimization |-> SmallOptimization(MaxCfgIterations),
             default_chat_model |-> m, openai_api_key |-> k] :
          m \in ModelNames, k \in BOOLEAN }

\* Config.get_mode_config: None when neither the mode nor balanced is configured
get_mode_config(cfg, m) ==
    IF m \in DOMAIN cfg.optimization
      THEN [none |-> FALSE, value |-> cfg.optimization[m]]
      ELSE IF "balanced" \in DOMAIN cfg.optimization
             THEN [none |-> FALSE, value |-> cfg.optimization["balanced"]]
             ELSE [none |-> TRUE, value |-> EmptyDict]

Provider(name) == IF name = OpenAIModel THEN "openai" ELSE "ollama"

\* ModelRegistry.get_llm: the instance (named by its cache key), the cache
\* afterwards, or the ValueError of a provider that cannot be initialised
get_llm(cfg, cache, model_name) ==
    LET name == IF model_name = NoModel THEN cfg.default_chat_model ELSE model_name
    IN IF name \in cache
         THEN [exc |-> NoException, llm |-> name, cache |-> cache]
         ELSE IF Provider(name) = "openai" /\ ~cfg.openai_api_key
                THEN [exc |-> ValueError, llm |-> NoModel, cache |-> cache]
                ELSE [exc |-> NoException, llm |-> name, cache |-> cache \cup {name}]

(***************************************************************************)
(* Model output: text as a sequence of tokens, and the JSON it may carry   *)
(***************************************************************************)
\* the opening fence of a block tagged json, and the bare fence
FenceJson == "FENCE_JSON"
Fence == "FENCE"
Prose == "prose"

JObj(fields) == [type |-> "object", fields |-> fields]
JNull == [type |-> "null", fields |-> EmptyDict]
JArr == [type |-> "array", fields |-> EmptyDict]

\* the JSON documents a model answers with, by the token that stands for them
JsonTable ==
    [ j_array |-> JArr,
      j_empty |-> JObj(EmptyDict),
      j_null |-> JObj([classification |-> JNull]),
      j_web |-> JObj([classification |->
                        JObj([academicSearch |-> FALSE, discussionSearch |-> FALSE,
                              skipSearch |-> FALSE]),
                      standaloneFollowUp |-> "q2"]),
      j_academic |-> JObj([classification |-> JObj([academicSearch |-> TRUE]),
                           standaloneFollowUp |-> "q2"]),
      j_skip |-> JObj([classification |-> JObj([skipSearch |-> TRUE]),
                       standaloneFollowUp |-> "q2"]),
      j_done |-> JObj([done |-> TRUE]),
      j_more |-> JObj([done |-> FALSE, follow_up_query |-> "fq"]),
      j_more_nodone |-> JObj([follow_up_query |-> "fq"]),
      j_noquery |-> JObj([done |-> FALSE]),
      j_emptyquery |-> JObj([done |-> FALSE, follow_up_query |-> ""]) ]

JsonTokens == DOMAIN JsonTable

\* the ways a model wraps one document j in its text
Wrappings(j) ==
    { <<j>>,
      <<FenceJson, j, Fence>>,
      <<Fence, j, Fence>>,
      <<Prose, FenceJson, j, Fence, Prose>>,
      <<FenceJson, j>>,
      <<Fence, Prose, Fence, FenceJson, j, Fence>>,
      <<Prose, j>> }

\* the texts a model answers with: every document bare, some documents in
\* every wrapping, and texts that carry no document
ModelTexts ==
    { <<j>> : j \in JsonTokens }
    \cup UNION { Wrappings(j) : j \in {"j_academic", "j_more", "j_array"} }
    \cup { <<>>, <<Prose>>, <<FenceJson, Fence>> }

\* what a model call does: raises, or returns a response with text content
ModelOutcomes ==
    { [exc |-> NoException, content |-> t] : t \in ModelTexts }
    \cup { [exc |-> ModelCallError, content |-> <<>>] }

\* the outcomes of the synthesis call: its text is prose or empty
SynthOutcomes ==
    { [exc |-> NoException, content |-> t] : t \in {<<>>, <<Prose>>} }
    \cup { [exc |-> ModelCallError, content |-> <<>>] }

\* index of the first element of s in set S, or Len(s) + 1
FirstIndex(s, S) ==
    IF \E i \in 1..Len(s) : s[i] \in S
      THEN CHOOSE i \in 1..Len(s) : s[i] \in S /\ \A j \in 1..(i - 1) : s[j] \notin S
      ELSE Len(s) + 1

\* content.split(open)[1].split(fence)[0]: the text after the first opening
\* fence up to the next fence of any kind (or the end of the text)
AfterFence(content, open) ==
    LET rest == SubSeq(content, FirstIndex(content, {open}) + 1, Len(content))
    IN SubSeq(rest, 1, FirstIndex(rest, {Fence, FenceJson}) - 1)

\* "Extract JSON": classifier.py 69-73, researcher.py 167-171
ExtractJson(content) ==
    IF FenceJson \in Range(content) THEN AfterFence(content, FenceJson)
    ELSE IF Fence \in Range(content) THEN AfterFence(content, Fence)
    ELSE content

\* json.loads: one document and nothing else parses; everything else raises
json_loads(text) ==
    IF Len(text) = 1 /\ text[1] \in JsonTokens
      THEN [exc |-> NoException, value |-> JsonTable[text[1]]]
      ELSE [exc |-> JSONDecodeError, value |-> JNull]

\* value.get(key, default) on a parsed JSON value that is an object
JGet(value, k, default) == DictGet(value.fields, k, default)

(***************************************************************************)
(* Classifier.classify, after its model call returned or raised            *)
(***************************************************************************)
FallbackClassification(q, enabled_sources) ==
    [skip_search |-> FALSE,
     standalone_query |-> q,
     reasoning |-> "Classification failed, using defaults",
     sources |-> enabled_sources,
     query_type |-> "factual"]

\* BuildClassification without the filter of line 91
BuildClassificationUnfiltered(result, q, enabled_sources) ==
    LET classification_data == JGet(result, "classification", JObj(EmptyDict))
        selected ==
            (IF JGet(classification_data, "academicSearch", FALSE) THEN <<"academic">> ELSE <<>>)
            \o (IF JGet(classification_data, "discussionSearch", FALSE) THEN <<"social">> ELSE <<>>)
        withDefault ==
            IF selected = <<>> /\ ~JGet(classification_data, "skipSearch", FALSE)
              THEN <<"web">> ELSE selected
    IN [skip_search |-> JGet(classification_data, "skipSearch", FALSE),
        standalone_query |-> JGet(result, "standaloneFollowUp", q),
        sources |-> IF withDefault # <<>> THEN withDefault ELSE enabled_sources,
        reasoning |-> "Query classified using official classifier",
        original_classification |-> classification_data.fields]

\* BuildClassification without the default of lines 86-88
BuildClassificationNoWebDefault(result, q, enabled_sources) ==
    LET classification_data == JGet(result, "classification", JObj(EmptyDict))
        selected ==
            (IF JGet(classification_data, "academicSearch", FALSE) THEN <<"academic">> ELSE <<>>)
            \o (IF JGet(classification_data, "discussionSearch", FALSE) THEN <<"social">> ELSE <<>>)
        filtered == SelectSeq(selected, LAMBDA s : s \in Range(enabled_sources))
    IN [skip_search |-> JGet(classification_data, "skipSearch", FALSE),
        standalone_query |-> JGet(result, "standaloneFollowUp", q),
        sources |-> IF filtered # <<>> THEN filtered ELSE enabled_sources,
        reasoning |-> "Query classified using official classifier",
        original_classification |-> classification_data.fields]

\* lines 78-101: the Classification built from a parsed object
BuildClassification(result, q, enabled_sources) ==
    LET classification_data == JGet(result, "classification", JObj(EmptyDict))
        selected ==
            (IF JGet(classification_data, "academicSearch", FALSE) THEN <<"academic">> ELSE <<>>)
            \o (IF JGet(classification_data, "discussionSearch", FALSE) THEN <<"social">> ELSE <<>>)
        withDefault ==
            IF selected = <<>> /\ ~JGet(classification_data, "skipSearch", FALSE)
              THEN <<"web">> ELSE selected
        filtered == SelectSeq(withDefault, LAMBDA s : s \in Range(enabled_sources))
    IN [skip_search |-> JGet(classification_data, "skipSearch", FALSE),
        standalone_query |-> JGet(result, "standaloneFollowUp", q),
        sources |-> IF filtered # <<>> THEN filtered ELSE enabled_sources,
        reasoning |-> "Query classified using official classifier",
        original_classification |-> classification_data.fields]

\* the exception raised inside the try block of lines 64-103, if any
ClassifyError(outcome) ==
    IF outcome.exc # NoException THEN outcome.exc
    ELSE LET parsed == json_loads(ExtractJson(outcome.content))
         IN IF parsed.exc # NoException THEN parsed.exc
            ELSE IF parsed.value.type # "object" THEN AttributeError
            ELSE IF JGet(parsed.value, "classification", JObj(EmptyDict)).type # "object"
                   THEN AttributeError
            ELSE NoException

\* ClassifierCatch as if only parse errors were handled
ClassifierCatchJsonOnly == JSONDecodeError

\* the handler class of line 105: except (json.JSONDecodeError, Exception)
ClassifierCatch == Exception

\* lines 64-114: the value classify returns and the exception it lets out
ClassifyResult(outcome, q, enabled_sources) ==
    LET err == ClassifyError(outcome)
    IN IF err = NoException
         THEN [exc |-> NoException,
               value |-> BuildClassification(json_loads(ExtractJson(outcome.content)).value,
                                             q, enabled_sources)]
         ELSE IF Catches(ClassifierCatch, err)
                THEN [exc |-> NoException, value |-> FallbackClassification(q, enabled_sources)]
                ELSE [exc |-> err, value |-> EmptyDict]

(***************************************************************************)
(* Researcher: merging by url, refinement decisions                        *)
(***************************************************************************)
\* MergeResults without the test "url not in seen_urls"
RECURSIVE MergeResultsNoSeenCheck(_, _, _)
MergeResultsNoSeenCheck(results, acc, seen) ==
    IF results = <<>> THEN [all_results |-> acc, seen_urls |-> seen]
    ELSE LET result == Head(results)
             url == result.url
         IN IF url # ""
              THEN MergeResultsNoSeenCheck(Tail(results), Append(acc, result), seen \cup {url})
              ELSE MergeResultsNoSeenCheck(Tail(results), acc, seen)

\* the loop "for result in results: if url and url not in seen_urls: ..."
RECURSIVE MergeResults(_, _, _)
MergeResults(results, acc, seen) ==
    IF results = <<>> THEN [all_results |-> acc, seen_urls |-> seen]
    ELSE LET result == Head(results)
             url == result.url
         IN IF url # "" /\ url \notin seen
              THEN MergeResults(Tail(results), Append(acc, result), seen \cup {url})
              ELSE MergeResults(Tail(results), acc, seen)

\* lines 80-84: the result lists of the responses that are no exception
UsableResults(responses) ==
    [i \in 1..Len(responses) |->
        IF responses[i].exc # NoException THEN <<>> ELSE responses[i].results]

\* MergeResponses as if one failed call failed the whole gather
MergeResponsesAbortOnFailure(responses) ==
    IF \E i \in 1..Len(responses) : responses[i].exc # NoException
      THEN [all_results |-> <<>>, seen_urls |-> {}]
      ELSE MergeResults(Flatten(UsableResults(responses)), <<>>, {})

\* the list s back to front
Reverse(s) == [i \in 1..Len(s) |-> s[Len(s) + 1 - i]]

\* MergeResponses as if the responses were merged last task first
MergeResponsesReversed(responses) ==
    MergeResults(Flatten(UsableResults(Reverse(responses))), <<>>, {})

\* lines 80-89: the responses of gather in task order, exceptions skipped
MergeResponses(responses) ==
    MergeResults(Flatten(UsableResults(responses)), <<>>, {})

\* LoopContinues as if the loop ran two iterations past its budget
LoopContinuesPastBudget(it, maxIterations) == it < maxIterations + 2

\* LoopContinues with one iteration too many
LoopContinuesInclusive(it, maxIterations) == it <= maxIterations

\* line 124: for iteration in range(max_iterations)
LoopContinues(it, maxIterations) == it < maxIterations

\* SearchTasks as if every category were searched whatever the sources are
SearchTasksAllCategories(srcs) == <<"search", "academic_search", "social_search">>

\* lines 61-74: one Evidence Source call per known source name
SearchTasks(srcs) ==
    LET call(s) == CASE s = "web" -> "search"
                     [] s = "academic" -> "academic_search"
                     [] s = "social" -> "social_search"
                     [] OTHER -> "ignored"
        known == SelectSeq(srcs, LAMBDA s : s \in {"web", "academic", "social"})
    IN [i \in 1..Len(known) |-> call(known[i])]

\* EntersPhaseB without the test of the evidence found so far
EntersPhaseBInQuality(md, results) == md = "quality"

\* line 92: the test that guards the call of _iterative_research
EntersPhaseB(md, results) == md = "quality" /\ Len(results) > 0

\* the exception raised inside the try block of lines 162-175, if any
RefineError(outcome) ==
    IF outcome.exc # NoException THEN outcome.exc
    ELSE LET parsed == json_loads(ExtractJson(outcome.content))
         IN IF parsed.exc # NoException THEN parsed.exc
            ELSE IF parsed.value.type # "object" THEN AttributeError
            ELSE NoException

RefineDecision(outcome) == json_loads(ExtractJson(outcome.content)).value

\* AfterFollowUpIssued as if the follow-up search were started and not awaited
AfterFollowUpIssuedNotAwaited == "refine"

\* line 187: "await" suspends the loop until the follow-up search completes
AfterFollowUpIssued == "followup_wait"

\* RefineCatch as if only parse errors were handled
RefineCatchJsonOnly == JSONDecodeError

\* RefineCatch as if only connectivity errors were handled
RefineCatchConnectivityOnly == SearxngConnectionError

\* the handler class of line 199: except (json.JSONDecodeError, Exception)
RefineCatch == Exception

(***************************************************************************)
(* SearchAgent: handlers and responses                                     *)
(***************************************************************************)
\* line 73, line 122 and line 149: except Exception
AgentClassifyCatch == Exception

SynthCatch == Exception

\* OuterCatch as if only search errors were handled
OuterCatchSearchErrorOnly == SearchError

OuterCatch == Exception

\* SkipsSearch as if research were run whatever the Classification says
SkipsSearchNever(cls) == FALSE

\* line 85: research is run unless classification.get("skip_search", False)
SkipsSearch(cls) == DictGet(cls, "skip_search", FALSE)

\* lines 76-81
AgentDefaultClassification(q, srcs) ==
    [skip_search |-> FALSE, standalone_query |-> q, sources |-> srcs, query_type |-> "factual"]

\* lines 99-106
ConnectionFailedResponse(cls, exc) ==
    [answer |-> <<"I'm sorry, but I couldn't connect to the search service. Error:", exc,
                  "Please make sure SearXNG is running at", "searxng_url">>,
     sources |-> <<>>,
     classification |-> cls,
     error |-> "search_connection_failed"]

\* UnexpectedErrorResponse without its error tag
UnexpectedErrorResponseUntagged(exc) ==
    [answer |-> <<"I'm sorry, but an unexpected error occurred:", exc>>,
     sources |-> <<>>,
     classification |-> EmptyDict]

\* lines 151-156
UnexpectedErrorResponse(exc) ==
    [answer |-> <<"I'm sorry, but an unexpected error occurred:", exc>>,
     sources |-> <<>>,
     classification |-> EmptyDict,
     error |-> "unexpected_error"]

\* line 130: the text of result.get('content', '')[:200], named by its length
DigestContent(result) == ToString(Min(result.content, SnippetLen))

\* lines 128-130: the three lines of one digest item
DigestItem(result) == <<result.title, result.url, DigestContent(result)>>

\* FallbackAnswer as if it only listed the results it has
FallbackAnswerDigestOnly(results, exc) ==
    LET shown == Take(results, DigestItems)
    IN Flatten([i \in 1..Len(shown) |-> DigestItem(shown[i])])

\* FallbackAnswer as if it listed every result
FallbackAnswerWholeList(results, exc) ==
    IF results # <<>>
      THEN <<"I found some search results, but encountered an error generating a comprehensive answer. Here are the results:">>
           \o Flatten([i \in 1..Len(results) |-> DigestItem(results[i])])
      ELSE <<"I'm sorry, but I encountered an error while processing your request. Error:", exc>>

\* lines 125-132
FallbackAnswer(results, exc) ==
    IF results # <<>>
      THEN LET shown == Take(results, DigestItems)
           IN <<"I found some search results, but encountered an error generating a comprehensive answer. Here are the results:">>
              \o Flatten([i \in 1..Len(shown) |-> DigestItem(shown[i])])
      ELSE <<"I'm sorry, but I encountered an error while processing your request. Error:", exc>>

\* SourcesList as if the list were built back to front
SourcesListReversed(results) ==
    [i \in 1..Len(results) |->
        [title |-> results[Len(results) + 1 - i].title,
         url |-> results[Len(results) + 1 - i].url,
         snippet |-> Min(results[Len(results) + 1 - i].content, SnippetLen) + 3]]

\* lines 135-141
SourcesList(results) ==
    [i \in 1..Len(results) |->
        [title |-> results[i].title,
         url |-> results[i].url,
         snippet |-> Min(results[i].content, SnippetLen) + 3]]

\* lines 143-147
NormalResponse(answer, results, cls) ==
    [answer |-> answer, sources |-> SourcesList(results), classification |-> cls]

(***************************************************************************)
(* Chat history and the message lists handed to the model                  *)
(***************************************************************************)
\* Python's s[-n:] on a list: a new list of the last n entries
LastN(s, n) == SubSeq(s, IF Len(s) > n THEN Len(s) - n + 1 ELSE 1, Len(s))

\* a caller's history of n messages
History(n) ==
    [i \in 1..n |-> [role |-> IF i % 2 = 1 THEN "user" ELSE "assistant",
                     content |-> ToString(i)]]

\* classifier.py 43-62: the prompt quotes the last 3 messages of the history
ClassifierMessages(history, q) ==
    << [role |-> "system", content |-> "json_only"],
       [role |-> "user", content |-> "classifier_prompt", query |-> q,
        quoted |-> LastN(history, 3)] >>

\* researcher.py 135-160: the refinement prompt quotes no history
RefineMessages(q) ==
    << [role |-> "system", content |-> "research_assistant"],
       [role |-> "user", content |-> "refine_prompt", query |-> q] >>

\* GenerateAnswerLists as if messages were the history list itself, extended
\* in place
GenerateAnswerListsAliased(history, q) ==
    LET extended == history \o << [role |-> "user", content |-> q] >>
    IN [messages |-> extended, chat_history |-> extended]

\* GenerateAnswerLists as if the whole history were sent to the model
GenerateAnswerListsWholeHistory(history, q) ==
    [messages |->
        << [role |-> "system", content |-> "answer_prompt",
            quoted |-> LastN(history, 5)] >>
        \o history
        \o << [role |-> "user", content |-> q] >>,
     chat_history |-> history]

\* search_agent.py 183-208: the two lists after messages is built from the
\* prompt, a copy of the last 5 messages of the history, and the query
GenerateAnswerLists(history, q) ==
    [messages |->
        << [role |-> "system", content |-> "answer_prompt",
            quoted |-> LastN(history, 5)] >>
        \o LastN(history, 5)
        \o << [role |-> "user", content |-> q] >>,
     chat_history |-> history]

(***************************************************************************)
(* State                                                                   *)
(***************************************************************************)
VARIABLES
    config,            \* Config: optimization section, default model, API key
    llm_cache,         \* ModelRegistry._llm_cache: the cache keys held
    pc,                \* where the running request is suspended
    query,             \* arguments of search, after the defaults of lines 55-56
    sources,
    mode,
    model,
    chat_history,      \* the caller's history list, passed to search by reference
    messages,          \* the message list of the latest model call
    llm,               \* search: the instance resolved at line 64
    classifier_llm,    \* classify: the instance resolved at line 40
    classification,
    search_results,    \* search: the evidence list of lines 84-110
    max_iterations,    \* research: lines 53-54
    max_results,
    search_tasks,      \* research: the calls handed to gather
    search_responses,  \* research: what gather has collected so far
    all_results,       \* research / _iterative_research
    seen_urls,
    iteration,         \* _iterative_research: the loop variable
    response,          \* the dict search returned
    raised,            \* the exception search let out to its caller
    calls,             \* collaborator calls issued by the running request
    events             \* what happened to them: failures, successes, skipped duplicates

vars == <<config, llm_cache, pc, query, sources, mode, model, chat_history, messages,
          llm, classifier_llm,
          classification, search_results, max_iterations, max_results, search_tasks,
          search_responses, all_results, seen_urls, iteration,
          response, raised, calls, events>>

researchVars == <<max_iterations, max_results, search_tasks, search_responses,
                  all_results, seen_urls, iteration>>

requestVars == <<query, sources, mode, model>>

NoCalls == [classify |-> 0, search |-> 0, refine |-> 0, followup |-> 0,
            followup_ok |-> 0, synth |-> 0]

(***************************************************************************)
(* Inputs of a request                                                     *)
(***************************************************************************)
Queries == {"q"}

\* the caller's sources argument; <<>> stands for None and for []
SourceChoices == { <<>>, <<"web">>, <<"academic">>, <<"social", "uploads">> }

Modes == {"speed", "balanced", "quality"}

ModelChoices == {NoModel} \cup ModelNames

\* the caller's chat_history argument; <<>> stands for None and for []
Histories == { <<>>, History(MaxHistory) }

\* the requests made: every source list in speed mode, the balanced mode and
\* every model override on the web source, and two sources in quality mode
Requests ==
    { [query |-> q, sources |-> srcs, mode |-> "speed", model |-> NoModel,
       chat_history |-> <<>>] :
          q \in Queries, srcs \in SourceChoices }
    \cup { [query |-> q, sources |-> <<"web">>, mode |-> md, model |-> NoModel,
             chat_history |-> <<>>] :
          q \in Queries, md \in {"speed", "balanced"} }
    \cup { [query |-> q, sources |-> <<"web">>, mode |-> "speed", model |-> mdl,
             chat_history |-> <<>>] :
          q \in Queries, mdl \in ModelChoices }
    \cup { [query |-> q, sources |-> <<"web">>, mode |-> "speed", model |-> NoModel,
             chat_history |-> h] :
          q \in Queries, h \in Histories }
    \cup { [query |-> q, sources |-> <<"web", "academic">>, mode |-> "quality",
             model |-> NoModel, chat_history |-> <<>>] : q \in Queries }

Init ==
    /\ config \in Configs
    /\ llm_cache = {}
    /\ pc = "idle"
    /\ query = "q"
    /\ sources = <<"web">>
    /\ mode = "balanced"
    /\ model = NoModel
    /\ chat_history = <<>>
    /\ messages = <<>>
    /\ llm = NoModel
    /\ classifier_llm = NoModel
    /\ classification = EmptyDict
    /\ search_results = <<>>
    /\ max_iterations = 0
    /\ max_results = 0
    /\ search_tasks = <<>>
    /\ search_responses = <<>>
    /\ all_results = <<>>
    /\ seen_urls = {}
    /\ iteration = 0
    /\ response = EmptyDict
    /\ raised = NoException
    /\ calls = NoCalls
    /\ events = {}

(***************************************************************************)
(* How a step of search ends                                               *)
(***************************************************************************)
Goto(label) == pc' = label /\ UNCHANGED <<response, raised>>

\* search returns resp
Finish(resp) == pc' = "done" /\ response' = resp /\ UNCHANGED raised

\* an exception reaches the outermost handler of search (lines 149-156)
Propagate(exc) ==
    IF Catches(OuterCatch, exc)
      THEN Finish(UnexpectedErrorResponse(exc))
      ELSE pc' = "raised" /\ raised' = exc /\ UNCHANGED response

\* research raised exc: the handlers of lines 96-110, then the outermost one
ResearchRaised(exc) ==
    IF Catches(SearxngConnectionError, exc)
      THEN Finish(ConnectionFailedResponse(classification, exc)) /\ UNCHANGED search_results
    ELSE IF Catches(SearchError, exc)
      THEN Goto("synthesize") /\ search_results' = <<>>
    ELSE Propagate(exc) /\ UNCHANGED search_results

\* research returned results (line 87)
ResearchReturns(results) == Goto("synthesize") /\ search_results' = results

\* classify returned or raised: lines 67-81
AfterClassify(r, happened) ==
    IF r.exc = NoException
      THEN /\ classification' = r.value
           /\ events' = events \cup happened
           /\ Goto("research")
      ELSE /\ events' = events \cup happened \cup {"classify_raised"}
           /\ IF Catches(AgentClassifyCatch, r.exc)
                THEN classification' = AgentDefaultClassification(query, sources)
                     /\ Goto("research")
                ELSE classification' = classification /\ Propagate(r.exc)

(***************************************************************************)
(* Actions                                                                 *)
(***************************************************************************)
\* search is called: lines 55-64
Search(q, srcs, md, mdl, history) ==
    /\ pc \in {"idle", "done", "raised"}
    /\ chat_history' = history
    /\ messages' = <<>>
    /\ query' = q
    /\ sources' = IF srcs = <<>> THEN <<"web">> ELSE srcs
    /\ mode' = md
    /\ model' = mdl
    /\ classifier_llm' = NoModel
    /\ classification' = EmptyDict
    /\ search_results' = <<>>
    /\ max_iterations' = 0
    /\ max_results' = 0
    /\ search_tasks' = <<>>
    /\ search_responses' = <<>>
    /\ all_results' = <<>>
    /\ seen_urls' = {}
    /\ iteration' = 0
    /\ calls' = NoCalls
    /\ events' = {}
    /\ LET r == get_llm(config, llm_cache, mdl)
       IN /\ llm_cache' = r.cache
          /\ llm' = r.llm
          /\ IF r.exc # NoException
               THEN IF Catches(OuterCatch, r.exc)
                      THEN pc' = "done" /\ response' = UnexpectedErrorResponse(r.exc)
                           /\ raised' = NoException
                      ELSE pc' = "raised" /\ raised' = r.exc /\ response' = EmptyDict
               ELSE pc' = "classify" /\ response' = EmptyDict /\ raised' = NoException
    /\ UNCHANGED config

\* classify up to its model call: line 40 and lines 43-65
ClassifyStart ==
    /\ pc = "classify"
    /\ LET r == get_llm(config, llm_cache, NoModel)
       IN /\ llm_cache' = r.cache
          /\ classifier_llm' = r.llm
          /\ IF r.exc # NoException
               THEN /\ AfterClassify([exc |-> r.exc, value |-> EmptyDict],
                                      {"classifier_lookup_failed"})
                    /\ calls' = calls
                    /\ messages' = messages
               ELSE /\ calls' = [calls EXCEPT !.classify = @ + 1]
                    /\ messages' = ClassifierMessages(chat_history, query)
                    /\ Goto("classify_wait")
                    /\ UNCHANGED <<classification, events>>
    /\ UNCHANGED <<config, requestVars, chat_history, llm, search_results, researchVars>>

\* the classifier's model call returns or raises: lines 65-114
ClassifyReturns(outcome) ==
    /\ pc = "classify_wait"
    /\ AfterClassify(ClassifyResult(outcome, query, sources),
                     IF outcome.exc # NoException THEN {"classifier_call_raised"}
                     ELSE IF ClassifyError(outcome) # NoException THEN {"classifier_unparsed"}
                     ELSE {})
    /\ UNCHANGED <<config, llm_cache, requestVars, chat_history, messages, llm,
                   classifier_llm, search_results, researchVars, calls>>

\* ResearchSources as if research were given the classifier's selection
ResearchSourcesFromClassification(srcs, cls) == cls.sources

\* search_agent.py line 91: research is given the caller's sources
ResearchSources(srcs, cls) == srcs

\* search line 85 and research lines 52-78, up to the gather
ResearchStart ==
    /\ pc = "research"
    /\ IF SkipsSearch(classification)
         THEN /\ Goto("synthesize")
              /\ UNCHANGED <<search_results, max_iterations, max_results, search_tasks,
                             search_responses, calls>>
         ELSE LET mode_config == get_mode_config(config, mode)
                  tasks == SearchTasks(ResearchSources(sources, classification))
              IN IF mode_config.none
                   THEN /\ ResearchRaised(AttributeError)
                        /\ UNCHANGED <<max_iterations, max_results, search_tasks,
                                       search_responses, calls>>
                   ELSE /\ max_iterations' = DictGet(mode_config.value, "max_iterations",
                                                     DefaultMaxIterations)
                        /\ max_results' = DictGet(mode_config.value, "max_results",
                                                  DefaultMaxResults)
                        /\ IF tasks = <<>>
                             THEN /\ ResearchReturns(<<>>)
                                  /\ UNCHANGED <<search_tasks, search_responses, calls>>
                             ELSE /\ search_tasks' = tasks
                                  /\ search_responses' = [i \in 1..Len(tasks) |-> Pending]
                                  /\ calls' = [calls EXCEPT !.search = @ + Len(tasks)]
                                  /\ Goto("phaseA_wait")
                                  /\ UNCHANGED search_results
    /\ UNCHANGED <<config, llm_cache, requestVars, chat_history, messages, llm,
                   classifier_llm, classification, all_results, seen_urls, iteration,
                   events>>

\* one of the gathered Evidence Source calls completes (any order)
SearchCompletes(i, backend) ==
    /\ pc = "phaseA_wait"
    /\ i \in 1..Len(search_responses)
    /\ search_responses[i] = Pending
    /\ LET r == SearxngSearch_search(backend, max_results)
       IN /\ search_responses' = [search_responses EXCEPT ![i] = r]
          /\ events' = events \cup SearchEvents(r)
                 \cup (IF \E j \in 1..(i - 1) : search_responses[j] = Pending
                        THEN {"completed_out_of_order"} ELSE {})
    /\ Goto("phaseA_wait")
    /\ UNCHANGED <<config, llm_cache, requestVars, chat_history, messages, llm,
                   classifier_llm, classification, search_results, max_iterations,
                   max_results, search_tasks, all_results, seen_urls, iteration, calls>>

\* the tasks created and never awaited
GatherDoneAtOnce(responses) == TRUE

\* a wait that ends as soon as one of the calls has completed
GatherDoneFirstCompleted(responses) ==
    \E i \in 1..Len(responses) : responses[i] # Pending

\* the await of asyncio.gather at line 78 ends once every call has completed
GatherDone(responses) ==
    \A i \in 1..Len(responses) : responses[i] # Pending

\* gather is complete: lines 80-100 and, in quality mode, lines 121-122
PhaseAMerge ==
    /\ pc = "phaseA_wait"
    /\ GatherDone(search_responses)
    /\ LET merged == MergeResponses(search_responses)
       IN /\ all_results' = merged.all_results
          /\ events' = events \cup
                 (IF Len(merged.all_results) < Len(Flatten(UsableResults(search_responses)))
                    THEN {"result_skipped"} ELSE {})
          /\ IF EntersPhaseB(mode, merged.all_results)
               THEN /\ seen_urls' = {r.url : r \in Range(merged.all_results)}
                    /\ Goto("refine")
                    /\ UNCHANGED search_results
               ELSE /\ seen_urls' = merged.seen_urls
                    /\ ResearchReturns(merged.all_results)
    /\ search_responses' = <<>>
    /\ iteration' = 0
    /\ UNCHANGED <<config, llm_cache, requestVars, chat_history, messages, llm,
                   classifier_llm, classification, max_iterations, max_results,
                   search_tasks, calls>>

\* head of the loop of line 124: the next refinement model call, or the end
RefineStart ==
    /\ pc = "refine"
    /\ IF LoopContinues(iteration, max_iterations)
         THEN /\ calls' = [calls EXCEPT !.refine = @ + 1]
              /\ messages' = RefineMessages(query)
              /\ Goto("refine_wait")
              /\ UNCHANGED search_results
         ELSE /\ ResearchReturns(all_results)
              /\ UNCHANGED <<calls, messages>>
    /\ UNCHANGED <<config, llm_cache, requestVars, chat_history, llm, classifier_llm,
                   classification, researchVars, events>>

\* the refinement model call returns or raises: lines 163-187 and 199-202
RefineReturns(outcome) ==
    /\ pc = "refine_wait"
    /\ LET err == RefineError(outcome)
           decision == RefineDecision(outcome)
       IN IF err # NoException
            THEN /\ IF Catches(RefineCatch, err)
                      THEN ResearchReturns(all_results)
                      ELSE ResearchRaised(err)
                 /\ UNCHANGED <<calls, events>>
            ELSE IF JGet(decision, "done", FALSE) \/ JGet(decision, "follow_up_query", "") = ""
                   THEN /\ ResearchReturns(all_results)
                        /\ UNCHANGED <<calls, events>>
                   ELSE /\ calls' = [calls EXCEPT !.followup = @ + 1, !.search = @ + 1]
                        /\ Goto(AfterFollowUpIssued)
                        /\ UNCHANGED <<search_results, events>>
    /\ UNCHANGED <<config, llm_cache, requestVars, chat_history, messages, llm,
                   classifier_llm, classification, researchVars>>

\* the follow-up search returns or raises: lines 187-197 and 199-202; the
\* new results are added and the loop goes to its next iteration
FollowUpReturns(backend) ==
    /\ pc = "followup_wait"
    /\ LET r == SearxngSearch_search(backend, FollowUpMaxResults)
           merged == MergeResults(r.results, all_results, seen_urls)
       IN IF r.exc # NoException
            THEN /\ IF Catches(RefineCatch, r.exc)
                      THEN ResearchReturns(all_results)
                      ELSE ResearchRaised(r.exc)
                 /\ UNCHANGED <<all_results, seen_urls, iteration, calls, events>>
            ELSE /\ all_results' = merged.all_results
                 /\ seen_urls' = merged.seen_urls
                 /\ iteration' = iteration + 1
                 /\ calls' = [calls EXCEPT !.followup_ok = @ + 1]
                 /\ events' = events \cup
                        (IF Len(merged.all_results) < Len(all_results) + Len(r.results)
                           THEN {"result_skipped"} ELSE {})
                 /\ Goto("refine")
                 /\ UNCHANGED search_results
    /\ UNCHANGED <<config, llm_cache, requestVars, chat_history, messages, llm,
                   classifier_llm, classification, max_iterations, max_results,
                   search_tasks, search_responses>>

\* _generate_answer up to its model call: lines 114 and 169-210
Synthesize ==
    /\ pc = "synthesize"
    /\ calls' = [calls EXCEPT !.synth = @ + 1]
    /\ LET lists == GenerateAnswerLists(chat_history, query)
       IN /\ messages' = lists.messages
          /\ chat_history' = lists.chat_history
    /\ Goto("synth_wait")
    /\ UNCHANGED <<config, llm_cache, requestVars, llm, classifier_llm, classification,
                   search_results, researchVars, events>>

\* the synthesis model call returns or raises: lines 210-212 and 122-147
SynthReturns(outcome) ==
    /\ pc = "synth_wait"
    /\ IF outcome.exc = NoException
         THEN /\ Finish(NormalResponse(DictGet(outcome, "content", <<>>), search_results,
                                       classification))
              /\ UNCHANGED events
         ELSE /\ IF Catches(SynthCatch, outcome.exc)
                   THEN Finish(NormalResponse(FallbackAnswer(search_results, outcome.exc),
                                              search_results, classification))
                   ELSE Propagate(outcome.exc)
              /\ events' = events \cup {"synth_failed"}
    /\ UNCHANGED <<config, llm_cache, requestVars, chat_history, messages, llm,
                   classifier_llm, classification, search_results, researchVars, calls>>

Next ==
    \/ \E req \in Requests :
          Search(req.query, req.sources, req.mode, req.model, req.chat_history)
    \/ ClassifyStart
    \/ \E outcome \in ModelOutcomes : ClassifyReturns(outcome)
    \/ ResearchStart
    \/ \E i \in 1..2, backend \in BackendOutcomes : SearchCompletes(i, backend)
    \/ PhaseAMerge
    \/ RefineStart
    \/ \E outcome \in ModelOutcomes : RefineReturns(outcome)
    \/ \E backend \in BackendOutcomes : FollowUpReturns(backend)
    \/ Synthesize
    \/ \E outcome \in SynthOutcomes : SynthReturns(outcome)

Spec == Init /\ [][Next]_vars

(***************************************************************************)
(* The synthesis stage on its own: search at line 113, on evidence lists   *)
(* longer than the digest                                                  *)
(***************************************************************************)
\* an evidence list of n entries with n different urls
Evidence(n) ==
    [i \in 1..n |-> [title |-> "t", url |-> ToString(i),
                     content |-> IF i % 2 = 1 THEN SnippetLen + 50 ELSE 10]]

\* the Classifications search holds at line 113 for the query q on web
SynthesisClassifications ==
    { FallbackClassification("q", <<"web">>),
      AgentDefaultClassification("q", <<"web">>),
      BuildClassification(JsonTable["j_web"], "q", <<"web">>) }

\* search is about to call _generate_answer: a balanced request on the
\* source web whose one Evidence Source call returned the evidence
InitSynthesis ==
    /\ config \in {c \in Configs : c.default_chat_model = OllamaModel}
    /\ llm_cache = {OllamaModel}
    /\ pc = "synthesize"
    /\ query = "q"
    /\ sources = <<"web">>
    /\ mode = "balanced"
    /\ model = NoModel
    /\ chat_history \in Histories
    /\ messages = ClassifierMessages(chat_history, "q")
    /\ llm = OllamaModel
    /\ classifier_llm = OllamaModel
    /\ classification \in SynthesisClassifications
    /\ \E n \in 0..MaxEvidence :
          /\ search_results = Evidence(n)
          /\ all_results = Evidence(n)
          /\ seen_urls = {ToString(i) : i \in 1..n}
    /\ max_iterations = BalancedMaxIterations
    /\ max_results = BalancedMaxResults
    /\ search_tasks = <<"search">>
    /\ search_responses = <<>>
    /\ iteration = 0
    /\ response = EmptyDict
    /\ raised = NoException
    /\ calls = [NoCalls EXCEPT !.classify = 1, !.search = 1]
    /\ events = {"search_ok"}

NextSynthesis ==
    \/ Synthesize
    \/ \E outcome \in SynthOutcomes : SynthReturns(outcome)

SpecSynthesis == InitSynthesis /\ [][NextSynthesis]_vars

(***************************************************************************)
(* research on its own: researcher.py line 78 onwards, on result lists     *)
(* longer than the limits of the calls                                     *)
(***************************************************************************)
\* a raw result list of n records from the engine numbered tag; the urls of
\* two engines differ; noUrl: the first record lacks its url
WideBatch(tag, n, noUrl) ==
    [i \in 1..n |-> [title |-> "t",
                     url |-> IF noUrl /\ i = 1 THEN Missing ELSE ToString(100 * tag + i),
                     content |-> 10]]

WideBackends ==
    { [kind |-> "ok", results |-> WideBatch(tag, n, noUrl)] :
          tag \in 1..3, n \in {0, 1, MaxWideBatch}, noUrl \in BOOLEAN }
    \cup { [kind |-> "unreachable", results |-> <<>>],
           [kind |-> "failure", results |-> <<>>] }

\* the refinement decisions: go on with a follow-up query, or stop
GatherDecisions ==
    { [exc |-> NoException, content |-> <<j>>] : j \in {"j_more", "j_done"} }

\* the requests research is run for
GatherRequests ==
    { [sources |-> <<"web", "academic">>, mode |-> "quality"],
      [sources |-> <<"web">>, mode |-> "speed"] }

\* research has issued its Phase A calls (line 78) for a request whose
\* classification fell back to the defaults
InitGather ==
    /\ config \in { [optimization |-> SmallOptimization(k),
                     default_chat_model |-> OllamaModel, openai_api_key |-> FALSE] :
                       k \in 0..MaxCfgIterations }
    /\ llm_cache = {OllamaModel}
    /\ pc = "phaseA_wait"
    /\ query = "q"
    /\ \E req \in GatherRequests : sources = req.sources /\ mode = req.mode
    /\ model = NoModel
    /\ chat_history = <<>>
    /\ messages = ClassifierMessages(<<>>, "q")
    /\ llm = OllamaModel
    /\ classifier_llm = OllamaModel
    /\ classification = FallbackClassification("q", sources)
    /\ search_results = <<>>
    /\ max_iterations = DictGet(get_mode_config(config, mode).value, "max_iterations",
                                DefaultMaxIterations)
    /\ max_results = DictGet(get_mode_config(config, mode).value, "max_results",
                             DefaultMaxResults)
    /\ search_tasks = SearchTasks(ResearchSources(sources, classification))
    /\ search_responses = [i \in 1..Len(search_tasks) |-> Pending]
    /\ all_results = <<>>
    /\ seen_urls = {}
    /\ iteration = 0
    /\ response = EmptyDict
    /\ raised = NoException
    /\ calls = [NoCalls EXCEPT !.classify = 1, !.search = Len(search_tasks)]
    /\ events = {"classifier_call_raised"}

NextGather ==
    \/ \E i \in 1..2, backend \in WideBackends : SearchCompletes(i, backend)
    \/ PhaseAMerge
    \/ RefineStart
    \/ \E outcome \in GatherDecisions : RefineReturns(outcome)
    \/ \E backend \in WideBackends : FollowUpReturns(backend)

SpecGather == InitGather /\ [][NextGather]_vars

(***************************************************************************)
(* Requests whose collaborator calls all return or fail                    *)
(***************************************************************************)
\* the requests: two sources in quality mode, a request with no known
\* source, and a request with a model override
FairRequests ==
    { [query |-> "q", sources |-> <<"web", "academic">>, mode |-> "quality",
       model |-> NoModel, chat_history |-> <<>>],
      [query |-> "q", sources |-> <<"social", "uploads">>, mode |-> "speed",
       model |-> NoModel, chat_history |-> <<>>],
      [query |-> "q", sources |-> <<"web">>, mode |-> "balanced",
       model |-> OpenAIModel, chat_history |-> History(MaxHistory)] }

\* how a model call ends: with a decision of each kind, with prose, or by
\* raising
FairOutcomes ==
    { [exc |-> NoException, content |-> t] :
          t \in {<<"j_web">>, <<"j_skip">>, <<"j_more">>, <<"j_done">>, <<Prose>>} }
    \cup { [exc |-> ModelCallError, content |-> <<>>] }

\* how an Evidence Source call ends: with no result or one, or by raising
FairBackends ==
    { [kind |-> "ok", results |-> rs] : rs \in {<<>>} \cup {<<r>> : r \in RawResults} }
    \cup { [kind |-> "unreachable", results |-> <<>>],
           [kind |-> "failure", results |-> <<>>] }

\* the steps of a running request: the code between two awaits runs to the
\* next await, and a model call or Evidence Source call that was issued
\* returns or raises
Progress ==
    \/ ClassifyStart
    \/ \E outcome \in FairOutcomes : ClassifyReturns(outcome)
    \/ ResearchStart
    \/ \E i \in 1..2, backend \in FairBackends : SearchCompletes(i, backend)
    \/ PhaseAMerge
    \/ RefineStart
    \/ \E outcome \in FairOutcomes : RefineReturns(outcome)
    \/ \E backend \in FairBackends : FollowUpReturns(backend)
    \/ Synthesize
    \/ \E outcome \in SynthOutcomes : SynthReturns(outcome)

NextFair ==
    \/ \E req \in FairRequests :
          Search(req.query, req.sources, req.mode, req.model, req.chat_history)
    \/ Progress

SpecFair == Init /\ [][NextFair]_vars /\ WF_vars(Progress)

(***************************************************************************)
(* Properties                                                              *)
(***************************************************************************)
returned == pc = "done"

afterResearch == pc \in {"synthesize", "synth_wait", "done"}

NoDupUrls(rs) == \A i, j \in 1..Len(rs) : i # j => rs[i].url # rs[j].url

IsPrefix(a, b) == Len(a) <= Len(b) /\ SubSeq(b, 1, Len(a)) = a

\* the positions of s that hold the first occurrence of a non-empty url
FirstSeenIndices(s) ==
    {i \in 1..Len(s) : s[i].url # "" /\ \A j \in 1..(i - 1) : s[j].url # s[i].url}

\* the entries of s at those positions, in the order of s
FirstSeen(s) ==
    LET I == FirstSeenIndices(s)
    IN [k \in 1..Cardinality(I) |->
           s[CHOOSE i \in I : Cardinality({j \in I : j <= i}) = k]]

\* the result lists a follow-up search can return
FollowUpBatches ==
    {SearxngSearch_search(b, FollowUpMaxResults).results : b \in BackendOutcomes}

\* the results of the gathered calls that succeeded, in task order
SucceededResults ==
    Flatten([i \in 1..Len(search_responses) |->
                IF search_responses[i].exc = NoException
                  THEN search_responses[i].results ELSE <<>>])

gatherCompletes == pc = "phaseA_wait" /\ pc' # "phaseA_wait"

\* C1: search never raises to its caller, whatever model resolution, the
\* classifier call, the Evidence Source calls, the refinement calls and the
\* synthesis call do; it returns a dict with answer, sources, classification.
SearchNeverRaises ==
    /\ pc # "raised"
    /\ raised = NoException
    /\ returned => {"answer", "sources", "classification"} \subseteq DOMAIN response

\* C1 witness: an exception reached the outermost handler and came back as
\* a response
SearchNeverRaisesWitness ==
    /\ returned
    /\ DictGet(response, "error", "") = "unexpected_error"
    /\ response.answer # <<>>

everySearchFailedToConnect ==
    /\ calls.search > 0
    /\ "connectivity_error" \in events
    /\ events \cap {"search_ok", "generic_error"} = {}

\* C3: when skip_search is false and every Evidence Source call raises the
\* connectivity error, the response has its error field set, no sources, an
\* answer explaining the inability to connect, and no synthesis call is made.
ConnectivityShortCircuit ==
    (returned /\ everySearchFailedToConnect)
       => /\ "error" \in DOMAIN response
          /\ response.sources = <<>>
          /\ response.answer # <<>>
          /\ response.answer[1] = "I'm sorry, but I couldn't connect to the search service. Error:"
          /\ calls.synth = 0

\* C4: the evidence list never holds two entries with the same url, and its
\* entries are in first-seen order: the gather yields the first occurrences
\* of the urls of the batches in order, a follow-up batch only appends the
\* first occurrences of urls not held yet, and what research returns is
\* that list.
DedupInvariant ==
    [][ /\ NoDupUrls(all_results')
        /\ NoDupUrls(search_results')
        /\ gatherCompletes => all_results' = FirstSeen(SucceededResults)
        /\ (pc = "followup_wait" /\ pc' = "refine")
              => \E batch \in FollowUpBatches : all_results' = FirstSeen(all_results \o batch)
        /\ (pc \in {"refine", "refine_wait", "followup_wait"})
              => IsPrefix(all_results, all_results')
        /\ (pc \in {"phaseA_wait", "refine", "refine_wait", "followup_wait"}
               /\ pc' = "synthesize")
              => search_results' = all_results' ]_vars

\* C4 witness: a request whose gather and follow-up searches fed a url twice
\* returned two distinct entries
DedupInvariantWitness ==
    /\ returned
    /\ "result_skipped" \in events
    /\ calls.followup_ok >= 1
    /\ Len(search_results) = 2

\* C5: the sources of the Classification, in the pipeline and in the
\* response, are among the enabled sources, whatever the model selected.
SourceFiltering ==
    /\ "sources" \in DOMAIN classification
          => Range(classification.sources) \subseteq Range(sources)
    /\ (returned /\ "sources" \in DOMAIN response.classification)
          => Range(response.classification.sources) \subseteq Range(sources)

\* C5 witness: the model selected the academic source, which is not enabled
SourceFilteringWitness ==
    /\ returned
    /\ "original_classification" \in DOMAIN response.classification
    /\ DictGet(response.classification.original_classification, "academicSearch", FALSE)
    /\ "academic" \notin Range(sources)

everyIterationContinued ==
    /\ calls.followup = calls.refine
    /\ calls.followup_ok = calls.followup

\* C6: at most max_iterations follow-up searches and refinement calls are
\* made; in quality mode, when the gather yields a result and every decision
\* asks for a follow-up and every follow-up search succeeds, exactly
\* max_iterations of each are made (25 under the default configuration).
IterationBound ==
    /\ calls.followup <= max_iterations
    /\ calls.refine <= max_iterations
    /\ (afterResearch /\ mode = "quality" /\ search_results # <<>> /\ everyIterationContinued)
          => /\ calls.followup = max_iterations
             /\ calls.refine = max_iterations
             /\ config.optimization = DefaultOptimization
                   => calls.followup = QualityMaxIterations

\* C6 witness: 25 follow-up searches and 25 refinement calls were made
IterationBoundWitness ==
    /\ returned
    /\ mode = "quality"
    /\ calls.refine = QualityMaxIterations
    /\ calls.followup = QualityMaxIterations
    /\ calls.followup_ok = QualityMaxIterations

knownSources == {i \in 1..Len(sources) : sources[i] \in {"web", "academic", "social"}}

\* C7: when the classifier's model call throws, the Classification is the
\* hard-coded fallback exactly, and research is run on the enabled sources.
ClassifierFallbackExact ==
    "classifier_call_raised" \in events
       => /\ classification =
                [skip_search |-> FALSE,
                 standalone_query |-> query,
                 sources |-> sources,
                 reasoning |-> "Classification failed, using defaults",
                 query_type |-> "factual"]
          /\ pc # "research"
                => /\ Len(search_tasks) = Cardinality(knownSources)
                   /\ calls.search >= Cardinality(knownSources)
                   /\ calls.search > 0
          /\ returned => response.classification = classification

\* C7 witness: a request whose classifier call threw has gathered and returned
ClassifierFallbackExactWitness ==
    /\ returned
    /\ "classifier_call_raised" \in events
    /\ "search_ok" \in events

\* C8: classify raises nothing to its caller, whatever its model lookup, its
\* model call and the model's text do.
ClassifyNeverFails == "classify_raised" \notin events

\* C9: when the resolution of the request's model fails, no classifier call,
\* no Evidence Source call and no synthesis call is made, and the caller gets
\* an error-tagged response.
ResolutionFailureAborts ==
    (pc # "idle" /\ llm = NoModel)
       => /\ returned
          /\ calls = NoCalls
          /\ classifier_llm = NoModel
          /\ "error" \in DOMAIN response
          /\ response.error = "unexpected_error"
          /\ response.sources = <<>>

\* C9 witness: the model override could not be resolved
ResolutionFailureAbortsWitness ==
    /\ returned
    /\ llm = NoModel
    /\ model = OpenAIModel

\* C10: when the gather completes, research goes on whatever calls failed,
\* and the evidence list is the deduplicated results of the calls that
\* succeeded; a failed call contributes nothing.
FailedSourceContributesNothing ==
    [][ gatherCompletes
          => /\ pc' \in {"refine", "synthesize"}
             /\ raised' = NoException
             /\ {r.url : r \in Range(all_results')}
                   = {r.url : r \in Range(SucceededResults)} \ {""}
             /\ all_results' = FirstSeen(SucceededResults)
             /\ pc' = "synthesize" => search_results' = all_results' ]_vars

\* C10 witness: one gathered call failed to connect, another succeeded, and
\* the gather yielded evidence
FailedSourceContributesNothingWitness ==
    /\ pc = "refine"
    /\ calls.refine = 0
    /\ {"connectivity_error", "search_ok"} \subseteq events
    /\ all_results # <<>>

inFlight == pc \notin {"idle", "done", "raised"}

\* the gathered call of a single-source request returned exactly two results
\* that carry two different urls
twoDistinctResults ==
    /\ Len(search_responses) = 1
    /\ search_responses[1].exc = NoException
    /\ Len(search_responses[1].results) = 2
    /\ search_responses[1].results[1].url # ""
    /\ search_responses[1].results[2].url # ""
    /\ search_responses[1].results[1].url # search_responses[1].results[2].url

\* C11: a request in mode speed on the single source web makes one Evidence
\* Source call at most and no refinement call and no follow-up search; when
\* its search returns two results with two different urls the evidence has
\* exactly these two entries after exactly one call, the evidence is not
\* touched afterwards, and the response lists one source per evidence entry.
SpeedSingleSource ==
    [][ (inFlight /\ mode = "speed" /\ sources = <<"web">>)
          => /\ calls'.refine = 0
             /\ calls'.followup = 0
             /\ calls'.search <= 1
             /\ iteration' = 0
             /\ (gatherCompletes /\ twoDistinctResults)
                   => /\ pc' = "synthesize"
                      /\ calls'.search = 1
                      /\ search_results' = search_responses[1].results
             /\ pc \in {"synthesize", "synth_wait"}
                   => /\ search_results' = search_results
                      /\ calls'.search = calls.search
             /\ pc' = "done"
                   => (search_results # <<>> => calls.search = 1)
                      /\ Len(response'.sources) = Len(search_results)
                      /\ \A i \in 1..Len(search_results) :
                            response'.sources[i].url = search_results[i].url ]_vars

\* C11 witness: such a request returned two sources after one Evidence Source
\* call and no refinement call
SpeedSingleSourceWitness ==
    /\ returned
    /\ mode = "speed"
    /\ sources = <<"web">>
    /\ Len(response.sources) = 2
    /\ response.sources[1].url # response.sources[2].url
    /\ calls.search = 1
    /\ calls.refine = 0
    /\ "error" \notin DOMAIN response

\* the request is past the test of skip_search
pastSkipTest ==
    /\ pc \notin {"idle", "classify", "classify_wait", "research"}
    /\ "skip_search" \in DOMAIN classification

\* C12: evidence is gathered exactly when skip_search is false.  When it is
\* true no Evidence Source call, no refinement call and no follow-up search is
\* made, the synthesis call is made on empty evidence, and the response has
\* no sources and no error tag; when it is false every known source of the
\* request is searched.
SkipSearchGate ==
    /\ (pastSkipTest /\ classification.skip_search)
          => /\ calls.search = 0
             /\ calls.refine = 0
             /\ calls.followup = 0
             /\ search_results = <<>>
             /\ pc \in {"synthesize", "synth_wait", "done"}
             /\ pc \in {"synth_wait", "done"} => calls.synth = 1
             /\ returned => /\ response.sources = <<>>
                            /\ "error" \notin DOMAIN response
    /\ (pastSkipTest /\ ~classification.skip_search)
          => /\ calls.search >= Cardinality(knownSources)
             /\ knownSources # {} => calls.search > 0

\* C12 witness: a request classified skip_search returned after its synthesis
\* call, without any Evidence Source call
SkipSearchGateWitness ==
    /\ returned
    /\ "skip_search" \in DOMAIN classification
    /\ classification.skip_search
    /\ calls.synth = 1
    /\ calls.search = 0
    /\ response.sources = <<>>

\* C13: when the synthesis call fails, the answer is the explanatory sentence
\* followed by title, url and truncated content of the first 5 evidence items
\* at most when there is evidence, and a plain error sentence when there is
\* none; the response lists every evidence item as a source, carries the
\* Classification and has no error tag.
SynthesisFallback ==
    (returned /\ "synth_failed" \in events)
       => /\ "error" \notin DOMAIN response
          /\ response.classification = classification
          /\ Len(response.sources) = Len(search_results)
          /\ \A i \in 1..Len(search_results) :
                response.sources[i].url = search_results[i].url
          /\ IF search_results # <<>>
               THEN LET n == Min(Len(search_results), 5)
                    IN /\ Len(response.answer) = 1 + 3 * n
                       /\ response.answer[1] = "I found some search results, but encountered an error generating a comprehensive answer. Here are the results:"
                       /\ \A k \in 1..n :
                             /\ response.answer[3 * k - 1] = search_results[k].title
                             /\ response.answer[3 * k] = search_results[k].url
                             /\ response.answer[3 * k + 1] =
                                   ToString(Min(search_results[k].content, 200))
               ELSE /\ Len(response.answer) = 2
                    /\ response.answer[1] = "I'm sorry, but I encountered an error while processing your request. Error:"

\* C13 witness: the synthesis call failed on more than 5 evidence items; the
\* digest shows 5 of them and the response lists them all
SynthesisFallbackWitness ==
    /\ returned
    /\ "synth_failed" \in events
    /\ Len(search_results) > 5
    /\ Len(response.answer) = 16
    /\ Len(response.sources) = Len(search_results)

\* C14: in every response without an error tag the sources list has one
\* entry per item of the final evidence list of the Gatherer, in the same
\* order, with the url and the title of that item and a snippet of at most
\* 200 characters plus the ellipsis.
SourcesOneToOne ==
    (returned /\ "error" \notin DOMAIN response)
       => /\ search_results = all_results
          /\ Len(response.sources) = Len(all_results)
          /\ \A i \in 1..Len(all_results) :
                /\ response.sources[i].url = all_results[i].url
                /\ response.sources[i].title = all_results[i].title
                /\ response.sources[i].snippet <= 200 + 3
                /\ all_results[i].content <= 200
                      => response.sources[i].snippet = all_results[i].content + 3

\* C14 witness: a response lists two sources, the second of them found by a
\* follow-up search
SourcesOneToOneWitness ==
    /\ returned
    /\ "error" \notin DOMAIN response
    /\ calls.followup_ok >= 1
    /\ Len(response.sources) = 2
    /\ response.sources[1].url = "u2"
    /\ response.sources[2].url = "u1"

\* C15: the pipeline never changes the caller's chat history: from the call
\* of search to its return, on every path, no step changes the length or the
\* messages of the list the caller passed.
HistoryUntouched ==
    [][ inFlight => chat_history' = chat_history ]_vars

\* C15 witness: a request with a history of more than 5 messages returned
\* after its synthesis call was handed the last 5 of them
HistoryUntouchedWitness ==
    /\ returned
    /\ calls.synth = 1
    /\ Len(chat_history) > 5
    /\ Len(messages) = 7
    /\ messages[2] = chat_history[Len(chat_history) - 4]
    /\ messages[6] = chat_history[Len(chat_history)]

\* C16: a refinement call or a follow-up search is made only if the mode's
\* max_iterations is positive and the gather produced a result: with
\* max_iterations 0, or with no evidence from the gather, research ends with
\* the gathered calls alone.
PhaseBGate ==
    /\ calls.refine > 0 => (max_iterations > 0 /\ all_results # <<>>)
    /\ calls.followup > 0 => (max_iterations > 0 /\ all_results # <<>>)
    /\ (afterResearch /\ (max_iterations = 0 \/ search_results = <<>>))
          => /\ calls.refine = 0
             /\ calls.followup = 0
             /\ calls.search <= Len(search_tasks)

\* C16 witness: a quality request whose configuration sets max_iterations to 0
\* returned its gathered evidence without any refinement call
PhaseBGateWitness ==
    /\ returned
    /\ mode = "quality"
    /\ max_iterations = 0
    /\ Len(search_results) = 2
    /\ calls.search = 2
    /\ calls.refine = 0

\* C17: in every mode whose configured max_iterations is positive, a gather
\* that produced at least one result is followed by at least one refinement
\* call (the loop is gated by max_iterations alone, not by the mode's name).
RefinementForAnyMode ==
    (afterResearch /\ max_iterations > 0 /\ search_results # <<>>)
       => calls.refine >= 1

\* the refinement call failed, or its text carries no JSON object, or the
\* object says done, or it names no follow-up query
decisionStops(outcome) ==
    \/ outcome.exc # NoException
    \/ json_loads(ExtractJson(outcome.content)).exc # NoException
    \/ json_loads(ExtractJson(outcome.content)).value.type # "object"
    \/ JGet(json_loads(ExtractJson(outcome.content)).value, "done", FALSE)
    \/ JGet(json_loads(ExtractJson(outcome.content)).value, "follow_up_query", "") = ""

\* the outcomes of a refinement call that are to stop the loop
StoppingOutcomes == {outcome \in ModelOutcomes : decisionStops(outcome)}

\* C18: when the refinement decision says done, or the call or the parsing
\* of its text fails, or the follow-up query is empty, the loop stops at
\* once: research returns the evidence list as it was at the start of the
\* iteration, no follow-up search is issued, and no refinement call or
\* follow-up search is made afterwards.  A step that ends a refinement call
\* either stops the loop in that way or issues the follow-up search; no
\* stopping outcome issues the search, and no other outcome stops the loop.
StopWithoutSideEffects ==
    [][ /\ pc = "refine_wait"
              => /\ pc' \in {"synthesize", "followup_wait"}
                 /\ pc' = "synthesize"
                       => /\ search_results' = all_results
                          /\ all_results' = all_results
                          /\ seen_urls' = seen_urls
                          /\ iteration' = iteration
                          /\ calls' = calls
                          /\ response' = response
                          /\ \A outcome \in ModelOutcomes \ StoppingOutcomes :
                                ~RefineReturns(outcome)
                 /\ pc' = "followup_wait"
                       => /\ calls'.followup = calls.followup + 1
                          /\ all_results' = all_results
                          /\ \A outcome \in StoppingOutcomes : ~RefineReturns(outcome)
        /\ pc \in {"synthesize", "synth_wait"}
              => /\ calls'.refine = calls.refine
                 /\ calls'.followup = calls.followup
                 /\ calls'.search = calls.search
                 /\ search_results' = search_results ]_vars

\* C18 witness: the loop stopped in its second iteration and the request
\* returned the evidence of the gather and of the first follow-up search
StopWithoutSideEffectsWitness ==
    /\ returned
    /\ mode = "quality"
    /\ calls.refine = 2
    /\ calls.followup = 1
    /\ calls.followup_ok = 1
    /\ Len(search_results) = 2
    /\ Len(response.sources) = 2

\* C19: the iterations of the refinement loop are strictly sequential.  At
\* the head of iteration i+1 every earlier refinement call has returned and
\* every earlier follow-up search has completed and been merged; while a
\* refinement call is in flight no follow-up search is, and the other way
\* round; a refinement call is issued only when nothing else is in flight.
SequentialIterations ==
    [][ /\ pc' = "refine"
              => /\ calls'.refine = iteration'
                 /\ calls'.followup = iteration'
                 /\ calls'.followup_ok = iteration'
        /\ pc' = "refine_wait"
              => /\ calls'.refine = iteration' + 1
                 /\ calls'.followup = iteration'
                 /\ calls'.followup_ok = iteration'
        /\ pc' = "followup_wait"
              => /\ calls'.refine = iteration' + 1
                 /\ calls'.followup = iteration' + 1
                 /\ calls'.followup_ok = iteration'
        /\ (inFlight /\ calls'.refine = calls.refine + 1)
              => /\ calls.followup = calls.refine
                 /\ calls.followup_ok = calls.refine
        /\ (inFlight /\ calls'.followup = calls.followup + 1)
              => /\ calls.refine = calls.followup + 1
                 /\ calls.followup_ok = calls.followup ]_vars

\* C19 witness: the second refinement call is in flight, after the first
\* follow-up search completed and its new result was merged
SequentialIterationsWitness ==
    /\ pc = "refine_wait"
    /\ iteration = 1
    /\ calls.refine = 2
    /\ calls.followup_ok = 1
    /\ Len(all_results) = 2

\* the results of gathered call i, none if it failed or was not made
gathered(i) ==
    IF i <= Len(search_responses) /\ search_responses[i].exc = NoException
      THEN search_responses[i].results ELSE <<>>

\* C20: whatever the order in which the gathered calls complete, the
\* evidence list of the gather is the results of the first requested source
\* (first occurrence of each url) followed by the results of the second one
\* whose url was not seen yet.
MergeInDeclarationOrder ==
    [][ gatherCompletes
          => /\ Len(search_responses) <= 2
             /\ all_results' =
                   FirstSeen(gathered(1))
                   \o SelectSeq(FirstSeen(gathered(2)),
                                LAMBDA r : r.url \notin {x.url : x \in Range(gathered(1))}) ]_vars

\* C20 witness: the call of the second source completed before the call of
\* the first one, and the gather yielded two entries
MergeInDeclarationOrderWitness ==
    /\ pc = "refine"
    /\ calls.refine = 0
    /\ "completed_out_of_order" \in events
    /\ Len(search_tasks) = 2
    /\ Len(all_results) = 2

\* some Phase A search call has been issued and has not completed
phaseACallInFlight ==
    pc = "phaseA_wait" /\ \E i \in 1..Len(search_responses) : search_responses[i] = Pending

\* C21: while a Phase A search call is in flight no step changes the evidence
\* list, the set of seen urls or the results handed to search; the merge of
\* Phase A happens in one step that starts with every issued call completed;
\* within a request the list changes only in steps of research (the merge
\* after the gather, the merge after an awaited follow-up search)
NoMergeWhileGathering ==
    [][ /\ phaseACallInFlight =>
              /\ all_results' = all_results
              /\ seen_urls' = seen_urls
              /\ search_results' = search_results
              /\ pc' = "phaseA_wait"
        /\ gatherCompletes =>
              /\ Len(search_responses) = Len(search_tasks)
              /\ \A i \in 1..Len(search_responses) : search_responses[i] # Pending
        /\ (all_results' # all_results /\ pc' \notin {"classify", "done", "raised"}) =>
              /\ pc \in {"phaseA_wait", "followup_wait"}
              /\ ~phaseACallInFlight ]_vars

\* one of two gathered calls has returned results, the other is in flight,
\* and the evidence list is still empty
NoMergeWhileGatheringWitness ==
    /\ phaseACallInFlight
    /\ \E i \in 1..Len(search_responses) :
          /\ search_responses[i] # Pending
          /\ search_responses[i].exc = NoException
          /\ Len(search_responses[i].results) > 0
    /\ all_results = <<>>

\* the request is past its classification stage
pastClassification ==
    pc \in {"research", "phaseA_wait", "refine", "refine_wait", "followup_wait",
            "synthesize", "synth_wait"}

\* C22: never more than one classifier model call in a request, and a request
\* that passed model resolution and is past its classification stage has made
\* exactly one, whether the call failed, gave unparseable output or succeeded
ClassifiedExactlyOnce ==
    /\ calls.classify <= 1
    /\ pastClassification => calls.classify = 1

\* the number of history messages sent along with a synthesis call
sentHistory == Min(Len(chat_history), 5)

ParsedOutcomes == {outcome \in ModelOutcomes : ClassifyError(outcome) = NoException}

\* the object classify parsed out of the outcome
parsedResult(outcome) == json_loads(ExtractJson(outcome.content)).value

\* the source flags are missing from the classification object of the result
omitsSourceFlags(result) ==
    LET given == DOMAIN JGet(result, "classification", JObj(EmptyDict)).fields
    IN "academicSearch" \notin given /\ "discussionSearch" \notin given

omitsSkipSearch(result) ==
    "skipSearch" \notin DOMAIN JGet(result, "classification", JObj(EmptyDict)).fields

omitsStandalone(result) == "standaloneFollowUp" \notin DOMAIN result.fields

\* C24 as stated: when the parsed output omits a field its default is
\* applied: skip_search false, standalone_query the original query, sources
\* the full list of enabled sources
ClassifierDefaults ==
    [][ pc = "classify_wait" =>
          \A outcome \in ParsedOutcomes :
             ClassifyReturns(outcome) =>
                LET result == parsedResult(outcome)
                IN /\ omitsSkipSearch(result) => classification'.skip_search = FALSE
                   /\ omitsStandalone(result) => classification'.standalone_query = query
                   /\ omitsSourceFlags(result) => classification'.sources = sources ]_vars

\* C24 amended: skip_search defaults to false and standalone_query to the
\* original query; when the source flags are omitted, sources is the one
\* source web if the search is not skipped and web is enabled, and the full
\* list of enabled sources otherwise
ClassifierDefaultsWebFirst ==
    [][ pc = "classify_wait" =>
          \A outcome \in ParsedOutcomes :
             ClassifyReturns(outcome) =>
                LET result == parsedResult(outcome)
                IN /\ omitsSkipSearch(result) => classification'.skip_search = FALSE
                   /\ omitsStandalone(result) => classification'.standalone_query = query
                   /\ omitsSourceFlags(result) =>
                         classification'.sources =
                            IF ~classification'.skip_search /\ "web" \in Range(sources)
                              THEN <<"web">> ELSE sources ]_vars

\* classify has built a Classification from an output that omitted every
\* field, for a request on the two enabled sources web and academic
ClassifierDefaultsWitness ==
    /\ pc = "research"
    /\ Len(sources) = 2
    /\ "original_classification" \in DOMAIN classification
    /\ classification.original_classification = EmptyDict
    /\ classification.standalone_query = query
    /\ ~classification.skip_search
    /\ classification.sources = <<"web">>

\* the name under which step 1 of the request resolves its model
resolvedAtStepOne == IF model = NoModel THEN config.default_chat_model ELSE model

\* C25: while a request runs, its model instance is the one resolved from
\* the caller's override, or from the configured default without override,
\* and the classifier's model call is made on that same instance
ModelCallsOnResolvedInstance ==
    /\ inFlight => llm = resolvedAtStepOne
    /\ calls.classify > 0 => classifier_llm = llm

\* the Evidence Source outcomes that make a search call raise
FailingBackends ==
    {backend \in BackendOutcomes :
        SearxngSearch_search(backend, FollowUpMaxResults).exc # NoException}

\* research is running
inResearch == pc \in {"phaseA_wait", "refine", "refine_wait", "followup_wait"}

\* C26: research never ends by raising: a step that leaves research hands
\* search a list of results; when a follow-up search of Phase B fails, with
\* a connectivity error or any other, research returns in that step exactly
\* the evidence it held before the search, every item in its position
PartialResultsOnFollowUpFailure ==
    [][ /\ (inResearch /\ ~inResearch') =>
              /\ pc' = "synthesize"
              /\ raised' = NoException
              /\ search_results' = all_results'
        /\ pc = "followup_wait" =>
              \A backend \in FailingBackends :
                 FollowUpReturns(backend) =>
                    /\ pc' = "synthesize"
                    /\ search_results' = all_results
                    /\ all_results' = all_results
                    /\ iteration' = iteration ]_vars

\* research has returned after a follow-up search succeeded and the next one
\* failed: it returned the evidence of Phase A and of the first follow-up
PartialResultsOnFollowUpFailureWitness ==
    /\ pc = "synthesize"
    /\ calls.followup_ok >= 1
    /\ calls.followup = calls.followup_ok + 1
    /\ iteration = calls.followup_ok
    /\ Len(search_results) >= 2
    /\ search_results = all_results

\* where the calls of a request stand at each stage: none of the Gatherer
\* or of the Synthesizer during classification, none of the Synthesizer
\* while research runs, and no call of research open once synthesis began
stagesInOrder ==
    /\ pc \in {"classify", "classify_wait"} =>
          calls.search = 0 /\ calls.refine = 0 /\ calls.followup = 0 /\ calls.synth = 0
    /\ (pc = "research" \/ inResearch) => calls.synth = 0
    /\ calls.synth > 0 =>
          /\ pc \in {"synth_wait", "done", "raised"}
          /\ \A i \in 1..Len(search_responses) : search_responses[i] # Pending
          /\ calls.followup_ok <= calls.followup

\* what a step that issues calls or ends a stage looks like
stagesInOrderStep ==
    /\ calls'.search > calls.search =>
          /\ pc \in {"research", "refine_wait"}
          /\ pc' \in {"phaseA_wait", "followup_wait"}
          /\ "standalone_query" \in DOMAIN classification
    /\ gatherCompletes =>
          \A i \in 1..Len(search_tasks) : search_responses[i] # Pending
    /\ calls'.synth > calls.synth =>
          /\ pc = "synthesize" /\ pc' = "synth_wait"
          /\ calls' = [calls EXCEPT !.synth = 1]
    /\ (pc = "synth_wait" /\ pc' # "synth_wait") => pc' \in {"done", "raised"}

\* C27: the stages of a request run in the order Classifier, Gatherer,
\* Synthesizer, response: Evidence Source calls are issued only by research,
\* after the classification stage is over; the wait of Phase A ends only
\* when every one of its calls has completed; the synthesis call is issued
\* from the step after research, with no refinement call or search call
\* open, and only its return ends the request
StagesInOrder == []stagesInOrder /\ [][stagesInOrderStep]_vars

\* the synthesis call of a quality request is open after one classifier
\* call, two Phase A searches, refinement calls and a follow-up search
StagesInOrderWitness ==
    /\ pc = "synth_wait"
    /\ calls.classify = 1
    /\ calls.search >= 3
    /\ calls.refine >= 1
    /\ calls.followup >= 1
    /\ calls.synth = 1

\* the number of entries of the sequence s that equal x
Count(s, x) == Cardinality({i \in 1..Len(s) : s[i] = x})

\* the selections a classifier can make among the known sources
AlternativeSelections ==
    {<<"web">>, <<"academic">>, <<"social">>, <<"academic", "social">>}

\* C28: the Phase A calls of a request are fixed by the caller's sources:
\* one call of search per entry web, one of academic_search per entry
\* academic, one of social_search per entry social and no other call, and a
\* request whose Classification differs from this one's in its sources only
\* issues the same calls
PhaseASourcesFixedByCaller ==
    calls.search > 0 =>
       /\ Count(search_tasks, "search") = Count(sources, "web")
       /\ Count(search_tasks, "academic_search") = Count(sources, "academic")
       /\ Count(search_tasks, "social_search") = Count(sources, "social")
       /\ Len(search_tasks) = Cardinality(knownSources)
       /\ calls.search = Len(search_tasks) + calls.followup
       /\ \A alt \in AlternativeSelections :
             SearchTasks(ResearchSources(sources, [classification EXCEPT !.sources = alt]))
                = search_tasks

\* the caller asked for web and academic, the classifier selected web only,
\* and both calls of Phase A have been issued
PhaseASourcesFixedByCallerWitness ==
    /\ pc = "phaseA_wait"
    /\ sources = <<"web", "academic">>
    /\ classification.sources = <<"web">>
    /\ search_tasks = <<"search", "academic_search">>
    /\ calls.search = 2

\* the bound of the evidence list after Phase A and k refinement iterations
EvidenceBound(k) == Cardinality(knownSources) * max_results + FollowUpMaxResults * k

\* the size of the evidence list at every point of research
evidenceBounded ==
    /\ iteration <= max_iterations
    /\ Len(all_results) <= EvidenceBound(iteration)
    /\ Len(all_results) <= EvidenceBound(max_iterations)
    /\ Len(search_results) <= EvidenceBound(max_iterations)
    /\ \A i \in 1..Len(all_results) : all_results[i].url # ""
    /\ \A i \in 1..Len(search_results) : search_results[i].url # ""

\* what the merge of Phase A and a refinement iteration add to the list
evidenceBoundedStep ==
    /\ gatherCompletes =>
          Len(all_results') <= Cardinality(knownSources) * max_results
    /\ pc = "followup_wait" =>
          Len(all_results') <= Len(all_results) + FollowUpMaxResults

\* C29: the evidence list is bounded at every point: the merge of Phase A
\* leaves at most (known requested sources) x max_results items, a
\* refinement iteration adds at most 5, the final list has at most
\* sources x max_results + 5 x max_iterations items, and every item has a
\* non-empty url
EvidenceSizeBounded == []evidenceBounded /\ [][evidenceBoundedStep]_vars

\* research returned a list that reaches the bound: two Phase A calls and a
\* follow-up search that each returned more results than their limit
EvidenceSizeBoundedWitness ==
    /\ pc = "synthesize"
    /\ iteration = 1
    /\ Cardinality(knownSources) = 2
    /\ Len(search_results) = EvidenceBound(1)
    /\ Len(search_results) > FollowUpMaxResults
    /\ calls.followup_ok = 1

\* the calls a request has made so far stay within its budget
callBudget ==
    /\ calls.classify <= 1
    /\ calls.synth <= 1
    /\ calls.refine <= max_iterations
    /\ calls.followup <= max_iterations
    /\ calls.classify + calls.refine + calls.synth <= 2 + max_iterations
    /\ calls.search <= Len(sources) + max_iterations

\* C30: when every call that was issued returns or fails, a request that
\* was started returns a response, having made at most 2 + max_iterations
\* model calls and at most (requested sources) + max_iterations Evidence
\* Source calls; no stage calls again after a failure and the refinement
\* loop stays within max_iterations
RequestTerminatesWithinBudget == []callBudget /\ (inFlight ~> returned)

\* a quality request has returned after using its whole budget: the
\* classifier call, max_iterations refinement calls and the synthesis call,
\* and a search per requested source and per iteration
RequestTerminatesWithinBudgetWitness ==
    /\ returned
    /\ max_iterations >= 1
    /\ calls.classify + calls.refine + calls.synth = 2 + max_iterations
    /\ calls.search = Len(sources) + max_iterations
====
